---- MODULE Spec2Model ----
(***************************************************************************)
(* js-rendering-analyzer: the page driver session, the per-target engine   *)
(* loop, the content-difference percentage and the accessibility score.    *)
(*                                                                         *)
(* The repository holds several revisions of the analyzer:                 *)
(*   "root"    src/analyzer.js      (per-engine try/catch, HTTP/2          *)
(*                                   fallback, enhanced evasion, protected *)
(*                                   mode)                                 *)
(*   "enhanced" src/analyzer.js     (second copy in the same file: same    *)
(*                                   session code as root, business-impact *)
(*                                   classifier and scorer)                *)
(*   "modular" src/src/analyzer.js  (with src/src/utils.js)                *)
(* All are modelled; the variable revision says which one is running.      *)
(***************************************************************************)
EXTENDS Integers, Sequences, FiniteSets, TLC

VARIABLES
    revision,      \* which revision of the analyzer runs
    analysisType,  \* this.analysisType
    sessionMode,   \* standard | evasion | protected (ENHANCED_EVASION, FORCE_PROTECTED_MODE)
    pc,            \* position inside analyze() / the current engine session
    engineIdx,     \* index of the current engine in getBrowsersToTest()
    strategyIdx,   \* index of the current strategy in navigateWithFallbacks
    browser,       \* per engine: state of the browser instance
    ctx,           \* per context of the current session: none | open | closed
    closeCalls,    \* per context of the current session: number of close() calls
    thrown,        \* message of the exception in flight, or "none"
    hist,          \* what happened in the current session (environment outcomes, steps run)
    results,       \* this.results.browsers
    retval,        \* the record analyzeBrowser is about to return
    finished,      \* the engine whose session ended last, or "none"
    sessionThrew,  \* per engine: an exception left its session
    outcome,       \* how analyze() ended: running | returned | threw
    rawLength,     \* cleanRaw.length given to analyzeContent
    renderedLength,\* cleanRendered.length given to analyzeContent
    percentChange, \* contentDifferencePercent computed by analyzeContent
    diffPc,        \* input | done: whether analyzeContent has computed percentChange
    runs,          \* BrowserRun records given to generateSummary
    summary,       \* this.results.summary
    scorePc,       \* collect | done: whether generateSummary has run
    recommendations,  \* this.results.recommendations
    document,      \* the settled page given to analyzeJSRenderedContentFixed
    classPc,       \* evaluate | returned | caught | scored: position of the classification
    jsRenderedContent, \* what analyzeJSRenderedContentFixed returned
    envMaxBatchSize,   \* process.env.MAX_BATCH_SIZE
    maxBatchSize,      \* BatchAnalyzer's this.maxBatchSize
    sheet,             \* the rows read from the spreadsheet (response.data.values)
    urlsToProcess,     \* row numbers of the rows that need analysis
    limitedUrls,       \* the row numbers this invocation processes
    batchIdx,          \* position in limitedUrls (the loop's i + 1)
    processed,         \* per target analysed so far: its row number and the outcome
    slept,             \* number of inter-target delays completed
    remainingLog,      \* the counts of remaining URLs written to the log
    ambientRow,        \* process.env.TARGET_URL / ROW_NUMBER, as the row they belong to (0: unset)
    inFlight,          \* the rows whose analyze() has started and not ended
    writes,            \* the ranges of the sheet written so far, in order
    batchPc,           \* position inside runBatch()
    targetUrl,         \* this.targetUrl: valid | missing | unparseable
    report,            \* what analyze() wrote: none | results | error (error-report.json)
    rawHtml,           \* the raw markup, as a sequence of characters, tags and comments
    rawText,           \* cleanHtml(rawHtml)
    unit,              \* a candidate element of the rendered page: category and innerText
    unitMissing,       \* whether the classifier pushed the unit to its category's missing list
    textPc             \* clean | test | done: position in analyzeContent's text handling

sessionVars == <<revision, analysisType, sessionMode, pc, engineIdx, strategyIdx,
                 browser, ctx, closeCalls, thrown, hist, results, retval, finished,
                 sessionThrew, outcome>>
diffVars    == <<rawLength, renderedLength, percentChange, diffPc>>
scoreVars   == <<runs, summary, scorePc, recommendations>>
classVars   == <<document, classPc, jsRenderedContent>>
batchVars   == <<envMaxBatchSize, maxBatchSize, sheet, urlsToProcess, limitedUrls,
                 batchIdx, processed, slept, remainingLog, ambientRow, inFlight, writes,
                 batchPc>>
analyzeVars == <<targetUrl, report>>
textVars    == <<rawHtml, rawText, unit, unitMissing, textPc>>
auxVars     == <<classVars, batchVars, analyzeVars, textVars>>
vars        == <<sessionVars, diffVars, scoreVars, auxVars>>

----------------------------------------------------------------------------
(* Engines and modes *)

Revisions     == {"root", "enhanced", "modular"}
\* process.env.ANALYSIS_TYPE || 'full': the three documented values and any other string
AnalysisTypes == {"quick", "full", "stealth", "other"}
SessionModes  == {"standard", "evasion", "protected"}

allBrowsers == <<"chromium", "firefox", "webkit">>
Engines     == {allBrowsers[i] : i \in 1..Len(allBrowsers)}

\* getBrowsersToTest that ignores the analysis type
getBrowsersToTestAll(type) == allBrowsers

getBrowsersToTest(type) ==
    CASE type = "quick"   -> <<allBrowsers[1]>>
      [] type = "stealth" -> <<allBrowsers[1]>>
      [] OTHER            -> allBrowsers

CtxIds == {"primary", "fallback"}

NoRecord == [status |-> "norecord", error |-> "none", findings |-> "absent"]

NoHist == [primary |-> "none", fallback |-> "none", fallbackAttempts |-> 0,
           strategyOutcomes |-> <<>>, settle |-> "none", blocking |-> "none",
           captured |-> FALSE, classified |-> FALSE, faults |-> {}]

\* strategies of navigateWithFallbacks
strategies == <<"domcontentloaded", "load">>

browsers == getBrowsersToTest(analysisType)
engine   == browsers[engineIdx]

SessionInit ==
    /\ revision \in Revisions
    /\ analysisType \in AnalysisTypes
    /\ sessionMode \in (IF revision # "modular" THEN SessionModes ELSE {"standard"})
    /\ pc = "validate"
    /\ engineIdx = 1
    /\ strategyIdx = 1
    /\ browser = [e \in Engines |-> "none"]
    /\ ctx = [c \in CtxIds |-> "none"]
    /\ closeCalls = [c \in CtxIds |-> 0]
    /\ thrown = "none"
    /\ hist = NoHist
    /\ results = [e \in Engines |-> NoRecord]
    /\ retval = NoRecord
    /\ finished = "none"
    /\ sessionThrew = [e \in Engines |-> FALSE]
    /\ outcome = "running"

\* the exception `msg` is raised at step `step` by the environment and control
\* moves to `target`
Throw(msg, step, target) ==
    /\ thrown' = msg
    /\ hist' = [hist EXCEPT !.faults = @ \cup {step}]
    /\ pc' = target

----------------------------------------------------------------------------
(* analyze(): the engine loop, and analyzeBrowser's dispatch *)

TargetUrls == {"valid", "missing", "unparseable"}

\* whether analyze() begins with  if (!this.targetUrl) throw ...; try { new URL(...) }
\* catch { throw ... }: the modular revision has no such lines
ValidatesUrl(rev) == rev # "modular"

\* the validation at the head of analyze(), before the try: a missing or unparseable
\* URL throws out of analyze() (the catch with handleError is not around it)
Validate ==
    /\ pc = "validate"
    /\ IF ValidatesUrl(revision) /\ targetUrl # "valid"
         THEN /\ thrown' = IF targetUrl = "missing"
                             THEN "TARGET_URL environment variable is required"
                             ELSE "Invalid URL"
              /\ outcome' = "threw"
              /\ pc' = "done"
         ELSE /\ pc' = "loop"
              /\ UNCHANGED <<thrown, outcome>>
    /\ UNCHANGED <<revision, analysisType, sessionMode, engineIdx, strategyIdx, browser, ctx,
                   closeCalls, hist, results, retval, finished, sessionThrew,
                   diffVars, scoreVars, auxVars>>

\* for (const {name, engine} of browsers) ... analyzeBrowser(engine, name)
StartSession ==
    /\ pc = "loop"
    /\ engineIdx <= Len(browsers)
    /\ pc' = IF sessionMode = "protected" THEN "protected" ELSE "launch"
    /\ strategyIdx' = 1
    /\ ctx' = [c \in CtxIds |-> "none"]
    /\ closeCalls' = [c \in CtxIds |-> 0]
    /\ thrown' = "none"
    /\ hist' = NoHist
    /\ retval' = NoRecord
    /\ UNCHANGED <<revision, analysisType, sessionMode, engineIdx, browser, results,
                   finished, sessionThrew, outcome,
                   diffVars, scoreVars, auxVars>>

\* const browser = await browserType.launch(launchOptions)   (outside the try)
Launch ==
    /\ pc = "launch"
    /\ \/ /\ browser' = [browser EXCEPT ![engine] = "open"]
          /\ pc' = "newContext"
          /\ UNCHANGED <<thrown, hist>>
       \/ /\ Throw("browser launch failed", "launch", "record")
          /\ UNCHANGED browser
    /\ UNCHANGED <<revision, analysisType, sessionMode, engineIdx, strategyIdx, ctx,
                   closeCalls, results, retval, finished, sessionThrew, outcome,
                   diffVars, scoreVars, auxVars>>

\* browser.newContext, applyStealth / applyEnhancedStealth, context.newPage
NewContext ==
    /\ pc = "newContext"
    /\ \/ /\ ctx' = [ctx EXCEPT !["primary"] = "open"]
          /\ pc' = IF sessionMode = "evasion" THEN "strategies" ELSE "navigate"
          /\ UNCHANGED <<thrown, hist>>
       \/ /\ Throw("context creation failed", "newContext", "finally")
          /\ UNCHANGED ctx
    /\ UNCHANGED <<revision, analysisType, sessionMode, engineIdx, strategyIdx, browser,
                   closeCalls, results, retval, finished, sessionThrew, outcome,
                   diffVars, scoreVars, auxVars>>

----------------------------------------------------------------------------
(* analyzeBrowser: navigation *)

NavOutcomes == {"ok", "protocol", "timeout", "other"}

\* NavigatePrimary whose catch takes the fallback branch for every error,
\* not only for ERR_HTTP2_PROTOCOL_ERROR
NavigatePrimaryAnyError ==
    /\ pc = "navigate"
    /\ \E o \in NavOutcomes :
         /\ o = "ok" => targetUrl = "valid"
         /\ hist' = [hist EXCEPT !.primary = o]
         /\ IF o = "ok"
              THEN pc' = "settle" /\ UNCHANGED thrown
              ELSE IF revision # "modular"
                     THEN pc' = "fallback" /\ UNCHANGED thrown
                     ELSE pc' = "finally" /\ thrown' = "navigation failed"
    /\ UNCHANGED <<revision, analysisType, sessionMode, engineIdx, strategyIdx, browser, ctx,
                   closeCalls, results, retval, finished, sessionThrew, outcome,
                   diffVars, scoreVars, auxVars>>

\* try { response = await page.goto(...); rawHtml = await response.text() }
\* catch (error) { if (error.message.includes('ERR_HTTP2_PROTOCOL_ERROR')) ... else throw error }
\* The modular revision has no catch: every failure leaves the session.
NavigatePrimary ==
    /\ pc = "navigate"
    /\ \E o \in NavOutcomes :
         /\ o = "ok" => targetUrl = "valid"
         /\ hist' = [hist EXCEPT !.primary = o]
         /\ IF o = "ok"
              THEN pc' = "settle" /\ UNCHANGED thrown
              ELSE IF o = "protocol" /\ revision # "modular"
                     THEN pc' = "fallback" /\ UNCHANGED thrown
                     ELSE /\ pc' = "finally"
                          /\ thrown' = CASE o = "protocol" -> "ERR_HTTP2_PROTOCOL_ERROR"
                                         [] o = "timeout"  -> "Timeout 30000ms exceeded"
                                         [] OTHER          -> "navigation failed"
    /\ UNCHANGED <<revision, analysisType, sessionMode, engineIdx, strategyIdx, browser, ctx,
                   closeCalls, results, retval, finished, sessionThrew, outcome,
                   diffVars, scoreVars, auxVars>>

\* the catch branch up to rawHtml = await response.text():
\* context.close(); fallbackContext = browser.newContext(fallbackOptions); fallbackPage.goto
NavigateFallback ==
    /\ pc = "fallback"
    /\ closeCalls' = [closeCalls EXCEPT !["primary"] = @ + 1]
    /\ ctx' = [ctx EXCEPT !["primary"] = "closed", !["fallback"] = "open"]
    /\ \E o \in {"ok", "fail"} :
         /\ hist' = [hist EXCEPT !.fallback = o, !.fallbackAttempts = @ + 1]
         /\ IF o = "ok"
              THEN pc' = "adopt" /\ UNCHANGED thrown
              ELSE pc' = "finally" /\ thrown' = "fallback navigation failed"
    /\ UNCHANGED <<revision, analysisType, sessionMode, engineIdx, strategyIdx, browser,
                   results, retval, finished, sessionThrew, outcome,
                   diffVars, scoreVars, auxVars>>

\* await context.close(); context = fallbackContext; page = fallbackPage;
\* context is declared const: the second close() is again applied to the primary
\* context, and the assignment raises a TypeError.
AdoptFallback ==
    /\ pc = "adopt"
    /\ closeCalls' = [closeCalls EXCEPT !["primary"] = @ + 1]
    /\ thrown' = "Assignment to constant variable."
    /\ pc' = "finally"
    /\ UNCHANGED <<revision, analysisType, sessionMode, engineIdx, strategyIdx, browser, ctx,
                   hist, results, retval, finished, sessionThrew, outcome,
                   diffVars, scoreVars, auxVars>>

StrategyOutcomes == {"ok", "httpError", "timeout"}

\* NavigateWithFallbacks that returns every response, whatever its status
NavigateWithFallbacksAnyResponse ==
    /\ pc = "strategies"
    /\ strategyIdx <= Len(strategies)
    /\ \E o \in StrategyOutcomes :
         /\ hist' = [hist EXCEPT !.strategyOutcomes = Append(@, o)]
         /\ IF o \in {"ok", "httpError"}
              THEN pc' = "blocking" /\ UNCHANGED <<thrown, strategyIdx>>
              ELSE IF strategyIdx < Len(strategies)
                     THEN pc' = "strategies" /\ strategyIdx' = strategyIdx + 1
                          /\ UNCHANGED thrown
                     ELSE /\ pc' = "finally"
                          /\ thrown' = "All navigation strategies failed"
                          /\ UNCHANGED strategyIdx
    /\ UNCHANGED <<revision, analysisType, sessionMode, engineIdx, browser, ctx,
                   closeCalls, results, retval, finished, sessionThrew, outcome,
                   diffVars, scoreVars, auxVars>>

\* navigateWithFallbacks: one iteration of  for (const strategy of strategies)
NavigateWithFallbacks ==
    /\ pc = "strategies"
    /\ strategyIdx <= Len(strategies)
    /\ \E o \in StrategyOutcomes :
         /\ hist' = [hist EXCEPT !.strategyOutcomes = Append(@, o)]
         /\ IF o = "ok"
              THEN pc' = "blocking" /\ UNCHANGED <<thrown, strategyIdx>>
              ELSE IF strategyIdx < Len(strategies)
                     THEN pc' = "strategies" /\ strategyIdx' = strategyIdx + 1
                          /\ UNCHANGED thrown
                     ELSE /\ pc' = "finally"
                          /\ thrown' = "All navigation strategies failed"
                          /\ UNCHANGED strategyIdx
    /\ UNCHANGED <<revision, analysisType, sessionMode, engineIdx, browser, ctx,
                   closeCalls, results, retval, finished, sessionThrew, outcome,
                   diffVars, scoreVars, auxVars>>

\* if (await this.detectBlocking(page)) throw new Error('Site detected automation ...')
\* detectBlocking: keyword in title/body, or no body, or childless body, or evaluate threw
DetectBlocking ==
    /\ pc = "blocking"
    /\ \E matched \in BOOLEAN :
         IF matched
           THEN /\ hist' = [hist EXCEPT !.blocking = "matched"]
                /\ thrown' = "Site detected automation and blocked access"
                /\ pc' = "finally"
           ELSE /\ hist' = [hist EXCEPT !.blocking = "clear"]
                /\ pc' = "settle"
                /\ UNCHANGED thrown
    /\ UNCHANGED <<revision, analysisType, sessionMode, engineIdx, strategyIdx, browser, ctx,
                   closeCalls, results, retval, finished, sessionThrew, outcome,
                   diffVars, scoreVars, auxVars>>

----------------------------------------------------------------------------
(* analyzeBrowser: settle, extract, close *)

\* try { await page.waitForLoadState('networkidle', {timeout}) } catch (e) { continuing }
\* await page.waitForTimeout(...)
\* The modular revision awaits waitForLoadState without a try/catch.
Settle ==
    /\ pc = "settle"
    /\ \E o \in {"idle", "timeout"} :
         /\ hist' = [hist EXCEPT !.settle = o]
         /\ IF o = "timeout" /\ revision = "modular"
              THEN pc' = "finally" /\ thrown' = "Timeout 20000ms exceeded"
              ELSE pc' = "extract" /\ UNCHANGED thrown
    /\ UNCHANGED <<revision, analysisType, sessionMode, engineIdx, strategyIdx, browser, ctx,
                   closeCalls, results, retval, finished, sessionThrew, outcome,
                   diffVars, scoreVars, auxVars>>

ExtractOutcomes == {"ok", "contentFail", "screenshotFail", "analysisFail"}

\* renderedHtml = page.content(); page.screenshot(); analyzeContent(); getPerformanceMetrics()
Extract ==
    /\ pc = "extract"
    /\ \E o \in ExtractOutcomes :
         /\ hist' = [hist EXCEPT !.captured = (o # "contentFail"),
                                 !.classified = (o \in {"ok", "analysisFail"}),
                                 !.faults = IF o = "ok" THEN @ ELSE @ \cup {"extract"}]
         /\ IF o = "ok"
              THEN pc' = "closeContext" /\ UNCHANGED thrown
              ELSE pc' = "finally" /\ thrown' = "extraction failed"
    /\ UNCHANGED <<revision, analysisType, sessionMode, engineIdx, strategyIdx, browser, ctx,
                   closeCalls, results, retval, finished, sessionThrew, outcome,
                   diffVars, scoreVars, auxVars>>

\* the record built by  return { ...analysis, ..., status: 'success' }
\* (the modular revision's record carries no status field)
SuccessRecord(rev) ==
    [status |-> IF rev # "modular" THEN "success" ELSE "absent",
     error |-> "none", findings |-> "measured"]

\* await context.close(); return {...}
CloseContext ==
    /\ pc = "closeContext"
    /\ closeCalls' = [closeCalls EXCEPT !["primary"] = @ + 1]
    /\ ctx' = [ctx EXCEPT !["primary"] = "closed"]
    /\ retval' = SuccessRecord(revision)
    /\ pc' = "finally"
    /\ UNCHANGED <<revision, analysisType, sessionMode, engineIdx, strategyIdx, browser,
                   thrown, hist, results, finished, sessionThrew, outcome,
                   diffVars, scoreVars, auxVars>>

\* browser.close() closes the browser and every context of it that is still open
BrowserClose(c) == [x \in CtxIds |-> IF c[x] = "open" THEN "closed" ELSE c[x]]

\* CloseBrowser without the finally block's browser.close(): the browser stays open
CloseBrowserLeak ==
    /\ pc = "finally"
    /\ pc' = "record"
    /\ UNCHANGED <<revision, analysisType, sessionMode, engineIdx, strategyIdx, browser, ctx,
                   closeCalls, thrown, hist, results, retval, finished, sessionThrew, outcome,
                   diffVars, scoreVars, auxVars>>

\* finally { await browser.close(); }
CloseBrowser ==
    /\ pc = "finally"
    /\ browser' = [browser EXCEPT ![engine] = "closed"]
    /\ ctx' = BrowserClose(ctx)
    /\ pc' = "record"
    /\ UNCHANGED <<revision, analysisType, sessionMode, engineIdx, strategyIdx, closeCalls,
                   thrown, hist, results, retval, finished, sessionThrew, outcome,
                   diffVars, scoreVars, auxVars>>

\* analyzeProtectedSite: no browser is launched; getBasicSiteInfo parses the URL that
\* analyze() has already validated
AnalyzeProtectedSite ==
    /\ pc = "protected"
    /\ retval' = [status |-> "protected_site", error |-> "none", findings |-> "zero"]
    /\ pc' = "record"
    /\ UNCHANGED <<revision, analysisType, sessionMode, engineIdx, strategyIdx, browser, ctx,
                   closeCalls, thrown, hist, results, finished, sessionThrew, outcome,
                   diffVars, scoreVars, auxVars>>

\* the record written by the per-engine catch of analyze()
FailedRecord(msg) == [status |-> "failed", error |-> msg, findings |-> "absent"]

\* root:    try { results.browsers[name] = await analyzeBrowser() }
\*          catch (error) { results.browsers[name] = { error: error.message, status: 'failed' } }
\* modular: results.browsers[name] = await analyzeBrowser()   inside the outer try only
RecordRun ==
    /\ pc = "record"
    /\ finished' = engine
    /\ sessionThrew' = [sessionThrew EXCEPT ![engine] = (thrown # "none")]
    /\ IF thrown = "none"
         THEN /\ results' = [results EXCEPT ![engine] = retval]
              /\ engineIdx' = engineIdx + 1
              /\ pc' = "loop"
         ELSE IF revision # "modular"
                THEN /\ results' = [results EXCEPT ![engine] = FailedRecord(thrown)]
                     /\ engineIdx' = engineIdx + 1
                     /\ pc' = "loop"
                ELSE /\ pc' = "handleError"
                     /\ UNCHANGED <<results, engineIdx>>
    /\ UNCHANGED <<revision, analysisType, sessionMode, strategyIdx, browser, ctx,
                   closeCalls, thrown, hist, retval, outcome,
                   diffVars, scoreVars, auxVars>>

\* after the loop: generateSummary, generateRecommendations, saveResults, printSummary
Finish ==
    /\ pc = "loop"
    /\ engineIdx > Len(browsers)
    /\ pc' = "done"
    /\ outcome' = "returned"
    /\ report' = "results"
    /\ UNCHANGED <<revision, analysisType, sessionMode, engineIdx, strategyIdx, browser, ctx,
                   closeCalls, thrown, hist, results, retval, finished, sessionThrew,
                   diffVars, scoreVars, classVars, batchVars, targetUrl,
                   textVars>>

\* modular: catch (error) { await this.handleError(error); }   (not rethrown)
HandleError ==
    /\ pc = "handleError"
    /\ pc' = "done"
    /\ outcome' = "returned"
    /\ report' = "error"
    /\ UNCHANGED <<revision, analysisType, sessionMode, engineIdx, strategyIdx, browser, ctx,
                   closeCalls, thrown, hist, results, retval, finished, sessionThrew,
                   diffVars, scoreVars, classVars, batchVars, targetUrl,
                   textVars>>

----------------------------------------------------------------------------
(* analyzeContent: the content-difference percentage *)

MaxRawLength      == 101
MaxRenderedLength == 1002

Abs(x)    == IF x < 0 THEN -x ELSE x
Sign(x)   == IF x > 0 THEN 1 ELSE IF x < 0 THEN -1 ELSE 0
Min(a, b) == IF a < b THEN a ELSE b
Max(a, b) == IF a > b THEN a ELSE b

\* Math.round(n / d) for d > 0: the nearest integer, halves rounded towards +Infinity
Round(n, d) == (2 * n + d) \div (2 * d)

\* src/analyzer.js analyzeContent: difference, percentChange and its capping
percentChangeRoot(raw, rendered) ==
    LET difference == rendered - raw
        p == Round(difference * 100, raw)
    IN  IF raw > 0
          THEN IF Abs(p) > 500
                 THEN IF raw < 100
                        THEN IF rendered > 1000 THEN 100
                             ELSE Min(50, Round(difference, 10))
                        ELSE Sign(p) * Min(Abs(p), 200)
                 ELSE p
          ELSE IF rendered > 0 THEN 100 ELSE 0

\* src/src/analyzer.js analyzeContent
percentChangeModular(raw, rendered) ==
    IF raw > 0 THEN Round((rendered - raw) * 100, raw) ELSE 0

contentDifferencePercent(rev, raw, rendered) ==
    IF rev = "modular" THEN percentChangeModular(raw, rendered)
                       ELSE percentChangeRoot(raw, rendered)

\* significantChange: Math.abs(percentChange) > 15 || Math.abs(difference) > 2000
significantChange(rev, raw, rendered) ==
    \/ Abs(contentDifferencePercent(rev, raw, rendered)) > 15
    \/ Abs(rendered - raw) > 2000

DiffInit ==
    /\ rawLength \in 0..MaxRawLength
    /\ renderedLength \in 0..MaxRenderedLength
    /\ percentChange = 0
    /\ diffPc = "input"

\* analyzeContent(page, rawHtml, renderedHtml) on cleaned texts of the given lengths
AnalyzeContent ==
    /\ diffPc = "input"
    /\ percentChange' = contentDifferencePercent(revision, rawLength, renderedLength)
    /\ diffPc' = "done"
    /\ UNCHANGED <<rawLength, renderedLength, sessionVars, scoreVars, auxVars>>

----------------------------------------------------------------------------
(* generateSummary and the scorers *)

MaxNavMissing == 6

RECURSIVE SumSeq(_)
SumSeq(q) == IF q = <<>> THEN 0 ELSE Head(q) + SumSeq(Tail(q))

RECURSIVE UnionSeq(_)
UnionSeq(q) == IF q = <<>> THEN {} ELSE Head(q) \cup UnionSeq(Tail(q))

Map(q, Op(_)) == [i \in 1..Len(q) |-> Op(q[i])]
Some(q, P(_)) == \E i \in 1..Len(q) : P(q[i])
Count(q, P(_)) == Cardinality({i \in 1..Len(q) : P(q[i])})

confirmedModernFrameworks == {"React", "Vue.js", "Angular", "Next.js", "Nuxt.js", "Svelte"}

\* what analyzeJSRenderedContentFixed left in jsRenderedContent:
\*   legacy   { trulyMissingContent }             (root; missing = some category count > 0)
\*   enhanced { enhancedAnalysis }                (enhanced revision)
\*   failed   { error }                           (classification threw)
\*   none     no jsRenderedContent field          (modular, failed and protected runs)
NoContent == [kind |-> "none", missing |-> FALSE, nav |-> 0, pricing |-> 0,
              pricingTotal |-> 0, reviews |-> 0, cart |-> 0, buttonsTotal |-> 0,
              inventory |-> 0, inventoryTotal |-> 0]

ContentFindings(rev) ==
    CASE rev = "root" ->
           {[NoContent EXCEPT !.kind = "legacy", !.missing = m] : m \in BOOLEAN}
      [] rev = "enhanced" ->
           { [NoContent EXCEPT !.kind = "failed"],
             [NoContent EXCEPT !.kind = "enhanced"],
             [NoContent EXCEPT !.kind = "enhanced", !.nav = 3, !.reviews = 1],
             [NoContent EXCEPT !.kind = "enhanced", !.nav = MaxNavMissing,
                               !.pricing = 2, !.pricingTotal = 2, !.reviews = 1,
                               !.cart = 1, !.buttonsTotal = 2] }
      [] OTHER -> {NoContent}

\* lengths of one page: raw markup, cleaned raw text, cleaned rendered text
PageSizes ==
    { [rawHtml |-> 31,   raw |-> 5,   rendered |-> 5],
      [rawHtml |-> 200,  raw |-> 0,   rendered |-> 40],
      [rawHtml |-> 3000, raw |-> 600, rendered |-> 600],
      [rawHtml |-> 3000, raw |-> 600, rendered |-> 700],
      [rawHtml |-> 3000, raw |-> 600, rendered |-> 1300],
      [rawHtml |-> 1000, raw |-> 100, rendered |-> 400] }

FrameworkSets == { {}, {"React", "Vue.js", "Angular", "jQuery"} }

\* the record analyzeBrowser returns on success: {...analysis, status: 'success'}
SuccessRun(rev, size, fw, content, respErr) ==
    [kind |-> "success", error |-> FALSE,
     contentDifferencePercent |-> contentDifferencePercent(rev, size.raw, size.rendered),
     significantChange |-> significantChange(rev, size.raw, size.rendered),
     frameworks |-> fw, rawContentLength |-> size.raw, rawHtmlLength |-> size.rawHtml,
     responseErrors |-> respErr, content |-> content]

\* the record of the per-engine catch: { error, status: 'failed' }
FailedRun ==
    [kind |-> "failed", error |-> TRUE, contentDifferencePercent |-> 0,
     significantChange |-> FALSE, frameworks |-> {}, rawContentLength |-> 0,
     rawHtmlLength |-> 0, responseErrors |-> FALSE, content |-> NoContent]

\* the record of analyzeProtectedSite: status 'protected_site', zero lengths, no error
ProtectedRun ==
    [kind |-> "protected", error |-> FALSE, contentDifferencePercent |-> 0,
     significantChange |-> FALSE, frameworks |-> {"Analysis Blocked - Unable to Detect"},
     rawContentLength |-> 0, rawHtmlLength |-> 0, responseErrors |-> FALSE,
     content |-> NoContent]

\* the BrowserRun records one engine session can leave in results.browsers:
\* in protected mode every session returns the protected record; the modular revision
\* records successful sessions only
BrowserRuns(rev, mode) ==
    IF mode = "protected" THEN {ProtectedRun}
    ELSE {SuccessRun(rev, size, fw, c, e) :
            size \in PageSizes, fw \in FrameworkSets, c \in ContentFindings(rev),
            e \in (IF rev = "modular" THEN BOOLEAN ELSE {FALSE})}
         \cup (IF rev = "modular" THEN {} ELSE {FailedRun})

AbsPercent(b)       == Abs(b.contentDifferencePercent)
RawContentLength(b) == b.rawContentLength
Frameworks(b)       == b.frameworks
HasError(b)         == b.error
NoError(b)          == ~b.error
IsSignificant(b)    == b.significantChange

\* trulyMissingContent has a category with count > 0
HasActualMissingContent(b) == b.content.kind = "legacy" /\ b.content.missing

\* Clamp without the lower bound: Math.min(100, Math.round(score))
ClampNoFloor(score) == IF score > 100 THEN 100 ELSE score

\* Math.max(0, Math.min(100, Math.round(score)))
Clamp(score) == Max(0, Min(100, score))

\* the content-volume band; avgDifferencePercent = sumPercent / n
VolumePenalty(sumPercent, n) ==
    IF sumPercent > 100 * n THEN 40
    ELSE IF sumPercent > 50 * n THEN 30
    ELSE IF sumPercent > 25 * n THEN 20
    ELSE IF sumPercent > 10 * n THEN 10
    ELSE 0

\* LowRawContent that looks at the first record only
LowRawContentFirst(bs) == RawContentLength(bs[1]) < 500

\* avgRawContent < 500
LowRawContent(bs) == SumSeq(Map(bs, RawContentLength)) < 500 * Len(bs)

\* src/analyzer.js (first copy) calculateScore(browsers, frameworks, avgDifferencePercent),
\* avgDifferencePercent given as the sum of |diffPercent| over browsers
calculateScoreRoot(bs, frameworks, sumPercent) ==
    Clamp(100
          - VolumePenalty(sumPercent, Len(bs))
          - Cardinality(frameworks \cap confirmedModernFrameworks) * 10
          - (IF Some(bs, IsSignificant) /\ Some(bs, HasActualMissingContent) THEN 25 ELSE 0)
          - (IF LowRawContent(bs) THEN 15 ELSE 0))

\* calculateEcommerceDependency(analysis)
calculateEcommerceDependency(c) ==
    LET totalCritical   == c.pricingTotal + c.buttonsTotal + c.inventoryTotal
        missingCritical == c.pricing + c.cart + c.inventory
    IN  IF totalCritical = 0 THEN 0 ELSE Round(missingCritical * 100, totalCritical)

\* businessImpact.ecommerceDependent = totalMissingCritical > 2 || pricing.missing.length > 0
ecommerceDependent(c) == (c.pricing + c.inventory + c.cart > 2) \/ c.pricing > 0

\* the deduction of one browser in the enhanced calculateScore's forEach
BrowserPenalty(b) ==
    LET c == b.content
    IN  IF c.kind = "enhanced"
          THEN (IF c.pricing > 0 THEN 30 ELSE 0)
               + (IF c.reviews > 0 THEN 15 ELSE 0)
               + (IF c.nav > 5 THEN 20 ELSE IF c.nav > 0 THEN c.nav * 2 ELSE 0)
               + (IF c.cart > 0 THEN 25 ELSE 0)
               + (IF ecommerceDependent(c)
                    THEN calculateEcommerceDependency(c) \div 10 ELSE 0)
          ELSE IF b.significantChange /\ HasActualMissingContent(b) THEN 25 ELSE 0

\* src/analyzer.js (second copy) calculateScore
calculateScoreEnhanced(bs, frameworks, sumPercent) ==
    Clamp(100
          - VolumePenalty(sumPercent, Len(bs))
          - Cardinality(frameworks \cap confirmedModernFrameworks) * 10
          - SumSeq(Map(bs, BrowserPenalty))
          - (IF LowRawContent(bs) THEN 15 ELSE 0))

HasGoodStructure(b) == b.rawHtmlLength > 2000

\* src/src/utils.js calculateScore
calculateScoreUtils(bs, frameworks, sumPercent) ==
    Clamp(100
          - (IF sumPercent > 50 * Len(bs) THEN 40
             ELSE IF sumPercent > 25 * Len(bs) THEN 30
             ELSE IF sumPercent > 10 * Len(bs) THEN 20 ELSE 0)
          - Cardinality(frameworks \cap confirmedModernFrameworks) * 15
          - (IF Some(bs, IsSignificant) THEN 25 ELSE 0)
          - (IF LowRawContent(bs) THEN 20 ELSE 0)
          + (IF Some(bs, HasGoodStructure) THEN 5 ELSE 0))

calculateScore(rev, bs, frameworks, sumPercent) ==
    CASE rev = "root"     -> calculateScoreRoot(bs, frameworks, sumPercent)
      [] rev = "enhanced" -> calculateScoreEnhanced(bs, frameworks, sumPercent)
      [] OTHER            -> calculateScoreUtils(bs, frameworks, sumPercent)

\* calculateConsistency: variance of |diffPercent| against 25 and 100;
\* variance = sum((n*d_i - S)^2) / n^3 with S the sum of the d_i
calculateConsistency(bs) ==
    LET n  == Len(bs)
        d  == Map(bs, AbsPercent)
        S  == SumSeq(d)
        sq == SumSeq([i \in 1..n |-> (n * d[i] - S) * (n * d[i] - S)])
    IN  IF n < 2 THEN "N/A"
        ELSE IF sq < 25 * n * n * n THEN "High"
        ELSE IF sq < 100 * n * n * n THEN "Medium"
        ELSE "Low"

HasResponseErrors(b) == b.responseErrors

\* confidence -= errorCount * 30
FailurePenalty == 30

\* calculateConfidence(browsers)
calculateConfidence(rev, bs) ==
    Max(0, 100
           - (IF rev = "modular" THEN Count(bs, HasResponseErrors) * 20
                                 ELSE Count(bs, HasError) * FailurePenalty)
           - (IF calculateConsistency(bs) = "Low" THEN 15 ELSE 0))

NoSummary == [llmAccessibilityScore |-> 0, averageContentChange |-> 0,
              crossBrowserConsistency |-> "unset", analysisConfidence |-> 0,
              error |-> "none"]

\* AveragedRuns without the filter: every record is taken
AveragedRunsAll(rev, rs) == rs

\* const browsers = Object.values(this.results.browsers).filter(b => !b.error)
\* (no filter in the modular revision): the records the averages are taken over
AveragedRuns(rev, rs) == IF rev = "modular" THEN rs ELSE SelectSeq(rs, NoError)

\* generateSummary(): root and enhanced drop the records that carry an error and
\* answer the empty case explicitly; modular takes every record
generateSummary(rev, rs) ==
    LET bs == AveragedRuns(rev, rs)
        sumPercent == SumSeq(Map(bs, AbsPercent))
    IN  IF rev # "modular" /\ Len(bs) = 0
          THEN [llmAccessibilityScore |-> 0, averageContentChange |-> 0,
                crossBrowserConsistency |-> "N/A", analysisConfidence |-> 0,
                error |-> "All browsers failed"]
          ELSE [llmAccessibilityScore |->
                    calculateScore(rev, bs, UnionSeq(Map(bs, Frameworks)), sumPercent),
                averageContentChange |-> Round(sumPercent, Len(bs)),
                crossBrowserConsistency |-> calculateConsistency(bs),
                analysisConfidence |-> calculateConfidence(rev, bs),
                error |-> "none"]

\* one recommendation: the severity its text is labelled with (CRITICAL, HIGH, MEDIUM;
\* TECHNICAL, RECOMMENDATION, EXCELLENT, LLM IMPACT and unlabelled texts are
\* informational) and what it is about
Message(sev, topic) == [severity |-> sev, topic |-> topic]
Opt(cond, msgs) == IF cond THEN msgs ELSE <<>>

\* generateRecommendations(): the messages in the order they are pushed; bs are the
\* records the summary was computed from (requiresJSRendering, frameworksDetected)
generateRecommendations(rev, s, bs) ==
    IF rev # "modular" /\ s.error # "none"
      THEN <<Message("informational", "analysisFailed"),
             Message("informational", "tryManualTesting")>>
      ELSE <<Message("informational",
                     IF s.llmAccessibilityScore >= 80 THEN "excellent"
                     ELSE IF s.llmAccessibilityScore >= 60 THEN "good"
                     ELSE IF s.llmAccessibilityScore >= 40 THEN "moderate"
                     ELSE "poor")>>
           \o Opt(Some(bs, IsSignificant),
                  <<Message("informational", "useRenderingTool"),
                    Message("informational", "considerSsr")>>)
           \o Opt(UnionSeq(Map(bs, Frameworks)) # {},
                  <<Message("informational", "frameworksDetected")>>)
           \o Opt(s.crossBrowserConsistency = "Low",
                  <<Message("informational", "crossBrowserTesting")>>)
           \o Opt(s.analysisConfidence < 80,
                  <<Message("informational", "lowConfidence")>>)

ScoreInit ==
    /\ runs = <<>>
    /\ summary = NoSummary
    /\ scorePc = "collect"
    /\ recommendations = <<>>

\* one engine session has ended and left its record in results.browsers
AddRun ==
    /\ scorePc = "collect"
    /\ Len(runs) < Len(browsers)
    /\ \E b \in BrowserRuns(revision, sessionMode) : runs' = Append(runs, b)
    /\ UNCHANGED <<summary, scorePc, recommendations, sessionVars, diffVars, auxVars>>

\* await this.generateSummary(); await this.generateRecommendations()
\* after the engine loop
GenerateSummary ==
    /\ scorePc = "collect"
    /\ Len(runs) = Len(browsers)
    /\ summary' = generateSummary(revision, runs)
    /\ recommendations' =
          generateRecommendations(revision, summary', AveragedRuns(revision, runs))
    /\ scorePc' = "done"
    /\ UNCHANGED <<runs, sessionVars, diffVars, auxVars>>

----------------------------------------------------------------------------
(* analyzeJSRenderedContentFixed (enhanced revision): the business-impact classifier *)

MaxElements == 2

\* the categories of the analysis object built inside page.evaluate, in source order
Categories == <<"navMain", "breadcrumbs", "footer", "mobile", "forms", "buttons",
                "selectors", "search", "pricing", "inventory", "reviews", "products",
                "media">>
CategorySet == {Categories[i] : i \in 1..Len(Categories)}

\* the categories that have a querySelectorAll (mobile and products are never filled)
ElementCategories == CategorySet \ {"mobile", "products"}

\* forms, selectors and search fall back to a default text ('Unnamed form', 'Selector',
\* 'Search'): every element of them is compared with the raw markup
AlwaysCompared == {"forms", "selectors", "search"}

\* one element matched by a category's selector.  content says where the text the
\* category tests was found: "none" (no such text), "raw" (found in the raw markup),
\* "rendered" (only in the settled document).  commerce: a button whose text
\* categorizeButton puts in purchase/cart.
ElementKinds ==
    {[cat |-> c, content |-> t, commerce |-> FALSE] :
        c \in ElementCategories \ AlwaysCompared, t \in {"none", "raw", "rendered"}}
    \cup {[cat |-> c, content |-> t, commerce |-> FALSE] :
            c \in AlwaysCompared, t \in {"raw", "rendered"}}
    \cup {[cat |-> "buttons", content |-> "rendered", commerce |-> TRUE]}

Element(c, t) == [cat |-> c, content |-> t, commerce |-> FALSE]

\* helpers: the page's global object has categorizeNavLink, categorizeFooterLink,
\*   identifyFormType, categorizeButton and getPriceContext (inside page.evaluate `this`
\*   is the page's global object; the code assigns them only after using them)
\* technical: the raw markup has a hydration marker (data-reactroot, __NEXT_DATA__,
\*   __NUXT__, __vue__) and a script of the page names an /api/ endpoint
Documents ==
    {[helpers |-> h, technical |-> y, elements |-> es] :
        h \in BOOLEAN, y \in BOOLEAN,
        es \in UNION {[1..n -> ElementKinds] : n \in 0..MaxElements}}

\* raw body empty; the settled document has 5 navigation links and 2 priced items
ScenarioB ==
    [helpers |-> FALSE, technical |-> FALSE,
     elements |-> [i \in 1..7 |-> IF i <= 5 THEN Element("navMain", "rendered")
                                  ELSE Element("pricing", "rendered")]]

ElementsOf(doc, c) == {i \in 1..Len(doc.elements) : doc.elements[i].cat = c}

\* the element makes the evaluated function call one of the this.* helpers
CallsHelper(el) ==
    \/ el.cat \in {"navMain", "footer", "buttons"} /\ el.content # "none"
    \/ el.cat = "forms"
    \/ el.cat = "pricing" /\ el.content = "rendered"

\* page.evaluate rejects: a helper is called and the page does not define it
EvaluateThrows(doc) ==
    /\ ~doc.helpers
    /\ \E i \in 1..Len(doc.elements) : CallsHelper(doc.elements[i])

\* CategoryFindings whose total counts only the elements found in the raw markup
CategoryFindingsFoundTotal(doc, c) ==
    [total   |-> Cardinality({i \in ElementsOf(doc, c) :
                                 doc.elements[i].content = "raw"}),
     missing |-> Cardinality({i \in ElementsOf(doc, c) :
                                 doc.elements[i].content = "rendered"})]

\* X.total = querySelectorAll(...).length;  X.missing gets one entry per element whose
\* text is not found in the raw markup
CategoryFindings(doc, c) ==
    [total   |-> Cardinality(ElementsOf(doc, c)),
     missing |-> Cardinality({i \in ElementsOf(doc, c) :
                                 doc.elements[i].content = "rendered"})]

\* buttons.missing.filter(b => ['purchase', 'cart', 'buy'].includes(b.category)).length
MissingCommerceButtons(doc) ==
    Cardinality({i \in ElementsOf(doc, "buttons") :
                    doc.elements[i].content = "rendered" /\ doc.elements[i].commerce})

\* the analysis object returned by the evaluated function
EnhancedAnalysis(doc) ==
    [findings  |-> [c \in CategorySet |-> CategoryFindings(doc, c)],
     cart      |-> MissingCommerceButtons(doc),
     technical |-> doc.technical]

NoAnalysis == [findings  |-> [c \in CategorySet |-> [total |-> 0, missing |-> 0]],
               cart |-> 0, technical |-> FALSE]

NotClassified == [kind |-> "none", analysis |-> NoAnalysis, recommendations |-> <<>>]

\* the fields of enhancedAnalysis that calculateScore reads
ContentOf(a) ==
    [kind |-> "enhanced", missing |-> FALSE,
     nav |-> a.findings["navMain"].missing,
     pricing |-> a.findings["pricing"].missing,
     pricingTotal |-> a.findings["pricing"].total,
     reviews |-> a.findings["reviews"].missing,
     cart |-> a.cart,
     buttonsTotal |-> a.findings["buttons"].total,
     inventory |-> a.findings["inventory"].missing,
     inventoryTotal |-> a.findings["inventory"].total]

\* businessImpact.llmAccessibility
llmAccessibility(a) ==
    LET totalMissingCritical == a.findings["pricing"].missing
                                + a.findings["inventory"].missing + a.cart
    IN  IF totalMissingCritical > 3 THEN "poor"
        ELSE IF totalMissingCritical > 1 THEN "limited" ELSE "good"

\* generateEnhancedRecommendations(analysis): the messages in the order they are pushed
generateEnhancedRecommendations(a) ==
    LET f == a.findings
        c == ContentOf(a)
        totalIssues == f["navMain"].missing + f["footer"].missing + f["pricing"].missing
                       + f["reviews"].missing + f["buttons"].missing
    IN  Opt(f["pricing"].missing > 0, <<Message("critical", "pricing")>>)
        \o Opt(ecommerceDependent(c) /\ calculateEcommerceDependency(c) > 80,
               <<Message("critical", "ecommerce")>>)
        \o (IF f["navMain"].missing > 5 THEN <<Message("high", "navigation")>>
            ELSE IF f["navMain"].missing > 0 THEN <<Message("medium", "navigation")>>
            ELSE <<>>)
        \o Opt(f["reviews"].missing > 0, <<Message("high", "reviews")>>)
        \o Opt(f["inventory"].missing > 0, <<Message("medium", "inventory")>>)
        \o Opt(f["search"].missing > 0, <<Message("medium", "search")>>)
        \o Opt(f["forms"].missing > 0, <<Message("medium", "forms")>>)
        \o Opt(a.technical, <<Message("informational", "ssr"),
                              Message("informational", "progressiveEnhancement"),
                              Message("informational", "prepopulate")>>)
        \o (IF totalIssues > 10
              THEN <<Message("informational", "renderingEssential"),
                     Message("informational", "comprehensiveSsr")>>
            ELSE IF totalIssues > 5
              THEN <<Message("informational", "considerRendering"),
                     Message("informational", "prioritizeSsr")>>
            ELSE IF totalIssues > 0
              THEN <<Message("informational", "minorDependencies")>>
            ELSE <<Message("informational", "excellent")>>)
        \o <<Message("informational", "llmImpact:" \o llmAccessibility(a))>>

ClassInit ==
    /\ document \in Documents \cup {ScenarioB}
    /\ classPc = "evaluate"
    /\ jsRenderedContent = NotClassified

\* const enhancedAnalysis = await page.evaluate(...)
EvaluatePage ==
    /\ classPc = "evaluate"
    /\ IF EvaluateThrows(document)
         THEN /\ classPc' = "caught"
              /\ UNCHANGED jsRenderedContent
         ELSE /\ classPc' = "returned"
              /\ jsRenderedContent' = [jsRenderedContent EXCEPT
                                          !.analysis = EnhancedAnalysis(document)]
    /\ UNCHANGED <<document, sessionVars, diffVars, scoreVars, batchVars,
                   analyzeVars, textVars>>

\* return { summary, enhancedAnalysis, recommendations: generateEnhancedRecommendations() }
ClassifyReturn ==
    /\ classPc = "returned"
    /\ jsRenderedContent' =
          [jsRenderedContent EXCEPT
             !.kind = "enhanced",
             !.recommendations = generateEnhancedRecommendations(jsRenderedContent.analysis)]
    /\ classPc' = "classified"
    /\ UNCHANGED <<document, sessionVars, diffVars, scoreVars, batchVars,
                   analyzeVars, textVars>>

\* catch (error) { return { error, summary, recommendations: ['Manual content ...'] } }
ClassifyCatch ==
    /\ classPc = "caught"
    /\ jsRenderedContent' =
          [kind |-> "failed", analysis |-> NoAnalysis,
           recommendations |-> <<Message("informational", "manualInspection")>>]
    /\ classPc' = "classified"
    /\ UNCHANGED <<document, sessionVars, diffVars, scoreVars, batchVars,
                   analyzeVars, textVars>>

\* the lengths of the two snapshots of a document: the cleaned raw text is empty when
\* none of the document's texts is in the raw markup
SnapshotSizes(doc) ==
    IF /\ \E i \in 1..Len(doc.elements) : doc.elements[i].content = "rendered"
       /\ \A i \in 1..Len(doc.elements) : doc.elements[i].content # "raw"
      THEN [rawHtml |-> 200, raw |-> 0, rendered |-> 40]
      ELSE [rawHtml |-> 3000, raw |-> 600, rendered |-> 700]

\* the jsRenderedContent field of the run record, as calculateScore reads it
ClassifiedContent(js) ==
    IF js.kind = "enhanced" THEN ContentOf(js.analysis)
                            ELSE [NoContent EXCEPT !.kind = "failed"]

\* the run record of the page (analyzeContent's return, no framework detected)
ClassifiedRun(rev, doc, js) ==
    SuccessRun(rev, SnapshotSizes(doc), {}, ClassifiedContent(js), FALSE)

\* the single engine's record is stored and generateSummary runs (analysisType quick)
ScoreClassified ==
    /\ classPc = "classified"
    /\ runs' = <<ClassifiedRun(revision, document, jsRenderedContent)>>
    /\ summary' = generateSummary(revision, runs')
    /\ recommendations' =
          generateRecommendations(revision, summary', AveragedRuns(revision, runs'))
    /\ scorePc' = "done"
    /\ classPc' = "scored"
    /\ UNCHANGED <<document, jsRenderedContent, sessionVars, diffVars, batchVars,
                   analyzeVars, textVars>>

----------------------------------------------------------------------------
(* BatchAnalyzer.runBatch: the targets of a spreadsheet, one after the other *)

MaxRows == 3
MaxCap  == 2

\* parseInt(process.env.MAX_BATCH_SIZE) || 50
DefaultBatchSize == 50

\* the values of MAX_BATCH_SIZE: not set (or not a number: parseInt gives NaN), or an
\* integer
EnvValues ==
    {[set |-> FALSE, value |-> 0]} \cup {[set |-> TRUE, value |-> v] : v \in -1..MaxCap}

\* parseInt(env) || dflt: NaN and 0 are falsy
ParseIntOr(env, dflt) == IF env.set /\ env.value # 0 THEN env.value ELSE dflt

\* a row of the sheet: whether column A holds a URL and column B a value
SheetRows == [url : BOOLEAN, rawHtmlLength : BOOLEAN]
HeaderRow == [url |-> TRUE, rawHtmlLength |-> TRUE]

\* response.data.values || []: no row at all, or the header row and the data rows
Sheets ==
    {<<>>} \cup UNION {{<<HeaderRow>> \o d : d \in [1..n -> SheetRows]} : n \in 0..MaxRows}

\* url && (!rawHtmlLength || rawHtmlLength === '')
NeedsAnalysis(row) == row.url /\ ~row.rawHtmlLength

\* the loop over rows[1..]: rowNumber i + 1 of every row that needs analysis, in order
RowsToProcess(rows) ==
    LET F[k \in 0..Len(rows)] ==
            IF k < 2 THEN <<>>
            ELSE IF NeedsAnalysis(rows[k]) THEN Append(F[k - 1], k) ELSE F[k - 1]
    IN  F[Len(rows)]

\* Array.prototype.slice(0, n): a negative n counts from the end
Slice(q, n) ==
    IF n >= 0 THEN SubSeq(q, 1, Min(n, Len(q)))
    ELSE SubSeq(q, 1, Max(0, Len(q) + n))

\* limitedUrls without the cap: every row that needs analysis
LimitAll(q, n) == q

\* const limitedUrls = urlsToProcess.slice(0, this.maxBatchSize)
Limit(q, n) == Slice(q, n)

\* if (urlsToProcess.length > this.maxBatchSize) console.log(... remaining)
LogRemaining(log, q, n) == IF Len(q) > n THEN Append(log, Len(q) - n) ELSE log

\* how analyzer.analyze() for one target ended: it returned and updateGoogleSheet wrote
\* the row; it returned and updateGoogleSheet failed (it catches and logs); it threw and
\* the error status was written to the row; it threw and the write of the status failed
\* as well
TargetOutcomes == {"success", "successUnwritten", "error", "errorUnrecorded"}

\* process.env.ROW_NUMBER that is set for the first target only
SetAmbientOnce(row, old) == IF old = 0 THEN row ELSE old

\* process.env.TARGET_URL = url; process.env.ROW_NUMBER = rowNumber.toString()
SetAmbient(row, old) == row

\* the delay also after the last target
AfterTargetAlwaysSleep(i, n, o) == "sleep"

\* a failed write of the error status ends runBatch
AfterTargetWriteFailureFatal(i, n, o) ==
    IF o = "errorUnrecorded" THEN "threw" ELSE IF i < n THEN "sleep" ELSE "summary"

\* where the loop goes after target i of n ended with outcome o: the try/catch around
\* analyze() and the one around the status write let every outcome fall through to
\* if (i < limitedUrls.length - 1) await this.sleep(...)
AfterTarget(i, n, o) == IF i < n THEN "sleep" ELSE "summary"

\* the range a target's outcome writes: updateGoogleSheet writes B:U of the row in
\* process.env.ROW_NUMBER, the catch of the loop writes F:G of its own rowNumber
SheetWrite(o, ambient, rowNumber) ==
    CASE o = "success" -> <<[row |-> ambient, range |-> "B:U"]>>
      [] o = "error"   -> <<[row |-> rowNumber, range |-> "F:G"]>>
      [] OTHER         -> <<>>

BatchInit ==
    /\ envMaxBatchSize \in EnvValues
    /\ maxBatchSize = ParseIntOr(envMaxBatchSize, DefaultBatchSize)
    /\ sheet \in Sheets
    /\ urlsToProcess = <<>>
    /\ limitedUrls = <<>>
    /\ batchIdx = 0
    /\ processed = <<>>
    /\ slept = 0
    /\ remainingLog = <<>>
    /\ ambientRow = 0
    /\ inFlight = {}
    /\ writes = <<>>
    /\ batchPc = "start"

\* the sheet is read and the rows that need analysis are collected; runBatch returns
\* when there is none
ReadSheet ==
    /\ batchPc = "start"
    /\ urlsToProcess' = RowsToProcess(sheet)
    /\ batchPc' = IF Len(urlsToProcess') = 0 THEN "done" ELSE "limit"
    /\ UNCHANGED <<envMaxBatchSize, maxBatchSize, sheet, limitedUrls, batchIdx, processed,
                   slept, remainingLog, ambientRow, inFlight, writes,
                   sessionVars, diffVars, scoreVars, classVars, analyzeVars,
                   textVars>>

\* credentials do not parse or spreadsheets.values.get rejects: catch, log, throw error
ReadSheetFails ==
    /\ batchPc = "start"
    /\ batchPc' = "threw"
    /\ UNCHANGED <<envMaxBatchSize, maxBatchSize, sheet, urlsToProcess, limitedUrls,
                   batchIdx, processed, slept, remainingLog, ambientRow, inFlight, writes,
                   sessionVars, diffVars, scoreVars, classVars, analyzeVars,
                   textVars>>

\* the batch is limited and the remainder is logged
LimitBatch ==
    /\ batchPc = "limit"
    /\ limitedUrls' = Limit(urlsToProcess, maxBatchSize)
    /\ remainingLog' = LogRemaining(remainingLog, urlsToProcess, maxBatchSize)
    /\ batchIdx' = 1
    /\ batchPc' = IF Len(limitedUrls') = 0 THEN "summary" ELSE "analyze"
    /\ UNCHANGED <<envMaxBatchSize, maxBatchSize, sheet, urlsToProcess, processed, slept,
                   ambientRow, inFlight, writes,
                   sessionVars, diffVars, scoreVars, classVars, analyzeVars,
                   textVars>>

\* the loop body up to the call: the environment is set for the target, the analyzer is
\* constructed (it reads TARGET_URL) and analyze() is called
BeginTarget ==
    /\ batchPc = "analyze"
    /\ ambientRow' = SetAmbient(limitedUrls[batchIdx], ambientRow)
    /\ inFlight' = inFlight \cup {limitedUrls[batchIdx]}
    /\ batchPc' = "analysing"
    /\ UNCHANGED <<envMaxBatchSize, maxBatchSize, sheet, urlsToProcess, limitedUrls,
                   batchIdx, processed, slept, remainingLog, writes,
                   sessionVars, diffVars, scoreVars, classVars, analyzeVars,
                   textVars>>

\* await analyzer.analyze() ends: successCount++, or the catch with errorCount++ and
\* the write of the error status in a try/catch of its own
AnalyzeTarget ==
    /\ batchPc = "analysing"
    /\ \E o \in TargetOutcomes :
          /\ processed' = Append(processed, [row |-> limitedUrls[batchIdx], outcome |-> o])
          /\ writes' = writes \o SheetWrite(o, ambientRow, limitedUrls[batchIdx])
          /\ batchPc' = AfterTarget(batchIdx, Len(limitedUrls), o)
    /\ inFlight' = inFlight \ {limitedUrls[batchIdx]}
    /\ UNCHANGED <<envMaxBatchSize, maxBatchSize, sheet, urlsToProcess, limitedUrls,
                   batchIdx, slept, remainingLog, ambientRow,
                   sessionVars, diffVars, scoreVars, classVars, analyzeVars,
                   textVars>>

\* await this.sleep(this.delayBetweenUrls), then i++ and the loop test
Sleep ==
    /\ batchPc = "sleep"
    /\ slept' = slept + 1
    /\ batchIdx' = batchIdx + 1
    /\ batchPc' = IF batchIdx' <= Len(limitedUrls) THEN "analyze" ELSE "summary"
    /\ UNCHANGED <<envMaxBatchSize, maxBatchSize, sheet, urlsToProcess, limitedUrls,
                   processed, remainingLog, ambientRow, inFlight, writes,
                   sessionVars, diffVars, scoreVars, classVars, analyzeVars,
                   textVars>>

\* the summary after the loop logs the remainder again
BatchSummary ==
    /\ batchPc = "summary"
    /\ remainingLog' = LogRemaining(remainingLog, urlsToProcess, maxBatchSize)
    /\ batchPc' = "done"
    /\ UNCHANGED <<envMaxBatchSize, maxBatchSize, sheet, urlsToProcess, limitedUrls,
                   batchIdx, processed, slept, ambientRow, inFlight, writes,
                   sessionVars, diffVars, scoreVars, classVars, analyzeVars,
                   textVars>>

----------------------------------------------------------------------------
(* cleanHtml and the presence test of the missing-content classifiers *)

MaxMarkupLen == 3
MaxUnitLen   == 3

\* the pieces of a document: a tag <...>, a comment <!-- ... -->, letters, a blank
Tag      == "<>"
Comment  == "<!-->"
Letters  == {"a", "A"}
Blank    == " "
Tokens   == {Tag, Comment, Blank} \cup Letters

SeqsUpTo(S, n) == UNION {[1..k -> S] : k \in 0..n}

Markups == SeqsUpTo(Tokens, MaxMarkupLen)

\* String.prototype.trim()
RECURSIVE TrimLeft(_)
TrimLeft(q) == IF q # <<>> /\ Head(q) = Blank THEN TrimLeft(Tail(q)) ELSE q
RECURSIVE TrimRight(_)
TrimRight(q) ==
    IF q # <<>> /\ q[Len(q)] = Blank THEN TrimRight(SubSeq(q, 1, Len(q) - 1)) ELSE q
Trim(q) == TrimRight(TrimLeft(q))

\* .replace(/\s+/g, ' ')
RECURSIVE CollapseBlanks(_)
CollapseBlanks(q) ==
    IF Len(q) < 2 THEN q
    ELSE IF q[1] = Blank /\ q[2] = Blank THEN CollapseBlanks(Tail(q))
    ELSE <<q[1]>> \o CollapseBlanks(Tail(q))

\* .replace(/<!--[\s\S]*?-->/g, '')
RECURSIVE RemoveComments(_)
RemoveComments(q) ==
    IF q = <<>> THEN <<>>
    ELSE IF Head(q) = Comment THEN RemoveComments(Tail(q))
    ELSE <<Head(q)>> \o RemoveComments(Tail(q))

\* .replace(/<[^>]*>/g, by)
RECURSIVE ReplaceTags(_, _)
ReplaceTags(q, by) ==
    IF q = <<>> THEN <<>>
    ELSE IF Head(q) = Tag THEN by \o ReplaceTags(Tail(q), by)
    ELSE <<Head(q)>> \o ReplaceTags(Tail(q), by)

\* what a removed tag is replaced by: ' ' in src/analyzer.js, '' in src/src/analyzer.js
TagReplacement(rev) == IF rev = "modular" THEN <<>> ELSE <<Blank>>

\* cleanHtml(html)
cleanHtml(rev, html) ==
    Trim(CollapseBlanks(ReplaceTags(RemoveComments(html), TagReplacement(rev))))

\* String.prototype.toLowerCase()
toLowerCase(q) == [i \in 1..Len(q) |-> IF q[i] = "A" THEN "a" ELSE q[i]]

\* String.prototype.includes(term)
includes(q, term) ==
    \E i \in 0..(Len(q) - Len(term)) : SubSeq(q, i + 1, i + Len(term)) = term

\* .replace(/\s+/g, '')
RECURSIVE RemoveBlanks(_)
RemoveBlanks(q) ==
    IF q = <<>> THEN <<>>
    ELSE IF Head(q) = Blank THEN RemoveBlanks(Tail(q))
    ELSE <<Head(q)>> \o RemoveBlanks(Tail(q))

\* the categories whose candidates are compared by their innerText
TextCategories(rev) ==
    CASE rev = "root"     -> {"navigation", "headings", "prices", "buttons"}
      [] rev = "enhanced" -> {"navMain", "breadcrumbs", "footer", "buttons", "pricing",
                              "inventory", "reviews"}
      [] OTHER            -> {}

\* innerText?.trim() of a candidate: not empty, no blank at either end
UnitTexts ==
    {t \in SeqsUpTo(Letters \cup {Blank}, MaxUnitLen) :
        t # <<>> /\ t = Trim(t) /\ t = CollapseBlanks(t)}

NoUnit == [category |-> "none", text |-> <<>>]

\* the shortest text a category looks at: linkText.length > 2, headingText.length > 2,
\* buttonText.length > 1 in the first copy; any non-empty text elsewhere
MinTextLength(rev, cat) ==
    IF rev = "root" THEN (CASE cat \in {"navigation", "headings"} -> 3
                            [] cat = "buttons" -> 2
                            [] OTHER -> 1)
    ELSE 1

\* the categories whose test reads rawTextContent besides rawHtmlContent
ReadsRawText(rev, cat) ==
    \/ rev = "root" /\ cat \in {"navigation", "headings"}
    \/ rev = "enhanced" /\ cat = "navMain"

\* the search terms of a candidate: the first copy's navigation test also tries the text
\* without whitespace (and its first 10 characters)
SearchTerms(rev, cat, text) ==
    IF rev = "root" /\ cat = "navigation"
      THEN {toLowerCase(text), RemoveBlanks(toLowerCase(text))}
      ELSE {toLowerCase(text)}

\* const foundInRaw = rawHtmlContent.toLowerCase().includes(term) [ || rawTextContent... ]
foundInRaw(rev, cat, text, html, txt) ==
    \E term \in SearchTerms(rev, cat, text) :
        \/ includes(toLowerCase(html), term)
        \/ ReadsRawText(rev, cat) /\ includes(toLowerCase(txt), term)

\* if (!foundInRaw) missing.push(...)
CountedMissing(rev, cat, text, html, txt) ==
    /\ Len(text) >= MinTextLength(rev, cat)
    /\ ~foundInRaw(rev, cat, text, html, txt)

TextInit ==
    /\ rawHtml \in Markups
    /\ rawText = <<>>
    /\ unit \in IF TextCategories(revision) = {} THEN {NoUnit}
                ELSE [category : TextCategories(revision), text : UnitTexts]
    /\ unitMissing = FALSE
    /\ textPc = "clean"

\* const cleanRaw = this.cleanHtml(rawHtml)
CleanHtml ==
    /\ textPc = "clean"
    /\ rawText' = cleanHtml(revision, rawHtml)
    /\ textPc' = IF unit = NoUnit THEN "done" ELSE "test"
    /\ UNCHANGED <<rawHtml, unit, unitMissing, sessionVars, diffVars, scoreVars, classVars,
                   batchVars, analyzeVars>>

\* one candidate inside page.evaluate of analyzeJSRenderedContentFixed
TestUnit ==
    /\ textPc = "test"
    /\ unitMissing' = CountedMissing(revision, unit.category, unit.text, rawHtml, rawText)
    /\ textPc' = "done"
    /\ UNCHANGED <<rawHtml, rawText, unit, sessionVars, diffVars, scoreVars, classVars,
                   batchVars, analyzeVars>>

----------------------------------------------------------------------------
(* Specifications *)

\* analyzeContent and generateSummary at rest
DiffIdle  == rawLength = 0 /\ renderedLength = 0 /\ percentChange = 0 /\ diffPc = "input"
ScoreIdle == /\ runs = <<>> /\ summary = NoSummary /\ scorePc = "collect"
             /\ recommendations = <<>>
ClassIdle == /\ document = [helpers |-> FALSE, technical |-> FALSE, elements |-> <<>>]
             /\ classPc = "idle"
             /\ jsRenderedContent = NotClassified
BatchIdle == /\ envMaxBatchSize = [set |-> FALSE, value |-> 0]
             /\ maxBatchSize = DefaultBatchSize
             /\ sheet = <<>> /\ urlsToProcess = <<>> /\ limitedUrls = <<>>
             /\ batchIdx = 0 /\ processed = <<>> /\ slept = 0
             /\ remainingLog = <<>> /\ ambientRow = 0 /\ inFlight = {}
             /\ writes = <<>> /\ batchPc = "idle"
AnalyzeIdle == targetUrl = "valid" /\ report = "none"
TextIdle  == /\ rawHtml = <<>> /\ rawText = <<>> /\ unit = NoUnit /\ unitMissing = FALSE
             /\ textPc = "idle"
AuxIdle   == ClassIdle /\ BatchIdle /\ AnalyzeIdle /\ TextIdle

\* the engine sessions of one analyze()
Init == /\ SessionInit /\ DiffIdle /\ ScoreIdle /\ ClassIdle /\ BatchIdle
        /\ targetUrl \in TargetUrls /\ report = "none" /\ TextIdle
Next ==
    \/ Validate
    \/ StartSession
    \/ Launch
    \/ NewContext
    \/ NavigatePrimary
    \/ NavigateFallback
    \/ AdoptFallback
    \/ NavigateWithFallbacks
    \/ DetectBlocking
    \/ Settle
    \/ Extract
    \/ CloseContext
    \/ CloseBrowser
    \/ AnalyzeProtectedSite
    \/ RecordRun
    \/ Finish
    \/ HandleError
Spec == Init /\ [][Next]_vars

\* analyzeContent on every pair of cleaned-text lengths within the bounds
DiffSpecInit == SessionInit /\ sessionMode = "standard" /\ analysisType = "quick"
                /\ DiffInit /\ ScoreIdle /\ AuxIdle
DiffNext == AnalyzeContent
SpecDiff == DiffSpecInit /\ [][DiffNext]_vars

\* generateSummary on every sequence of BrowserRun records the engine loop can leave
ScoreSpecInit == SessionInit /\ DiffIdle /\ ScoreInit /\ AuxIdle
ScoreNext == AddRun \/ GenerateSummary
SpecScore == ScoreSpecInit /\ [][ScoreNext]_vars

\* the enhanced classifier on every document within the bounds, then the summary of
\* the single run
ClassSpecInit == /\ SessionInit /\ revision = "enhanced" /\ sessionMode = "standard"
                 /\ analysisType = "quick"
                 /\ DiffIdle /\ ScoreInit /\ ClassInit /\ BatchIdle /\ AnalyzeIdle
                 /\ TextIdle
ClassNext == EvaluatePage \/ ClassifyReturn \/ ClassifyCatch \/ ScoreClassified
SpecClassify == ClassSpecInit /\ [][ClassNext]_vars

\* one invocation of runBatch on every sheet and cap within the bounds
BatchSpecInit == /\ SessionInit /\ revision = "root" /\ sessionMode = "standard"
                 /\ analysisType = "quick"
                 /\ DiffIdle /\ ScoreIdle /\ ClassIdle /\ BatchInit /\ AnalyzeIdle
                 /\ TextIdle
BatchNext == ReadSheet \/ ReadSheetFails \/ LimitBatch \/ BeginTarget \/ AnalyzeTarget
             \/ Sleep
             \/ BatchSummary
SpecBatch == BatchSpecInit /\ [][BatchNext]_vars

\* cleanHtml on every raw markup within the bounds, and the presence test of every
\* candidate text in every category
TextSpecInit == /\ SessionInit /\ sessionMode = "standard" /\ analysisType = "quick"
                /\ DiffIdle /\ ScoreIdle /\ ClassIdle /\ BatchIdle /\ AnalyzeIdle
                /\ TextInit
TextNext == CleanHtml \/ TestUnit
SpecText == TextSpecInit /\ [][TextNext]_vars

----------------------------------------------------------------------------
(* Properties *)

\* an engine session has ended and hist still describes it
SessionEnded == finished # "none" /\ pc \in {"loop", "handleError", "done"}

\* the record the ended session left for its engine
LastRecord == results[finished]

\* C1: on every exit path of a session the browser context acquired for the run is
\* released exactly once: close() is applied to no context twice, and no context is
\* still open when the session has ended.
C1_ContextReleasedExactlyOnce ==
    \A c \in CtxIds :
        /\ closeCalls[c] <= 1
        /\ SessionEnded => ctx[c] # "open"

\* C2: when the primary navigation fails with a protocol error and the fallback
\* navigation succeeds, the session goes on through Settle and Extract and (no later
\* step failing) is finalized with status success.
C2_FallbackSuccessEndsSuccess ==
    (SessionEnded /\ hist.primary = "protocol" /\ hist.fallback = "ok" /\ hist.faults = {})
        => /\ hist.settle # "none"
           /\ hist.captured
           /\ LastRecord.status = "success"

\* the standard session of src/analyzer.js: analyzeBrowser's own navigation try/catch
\* under analyze()'s per-engine catch
StandardSession == revision # "modular" /\ sessionMode = "standard"

C4_SettleTimeoutNotFatal ==
    (SessionEnded /\ hist.settle = "timeout" /\ hist.faults = {})
        => hist.captured /\ LastRecord.status = "success"

\* C5: whenever the blocking check matches, the run is finalized with status blocked
\* and zero-valued findings, and neither the settled markup is captured nor the
\* content classified.
C5_BlockedRunIsBlocked ==
    (SessionEnded /\ hist.blocking = "matched")
        => /\ LastRecord.status = "blocked"
           /\ LastRecord.findings = "zero"
           /\ ~hist.captured
           /\ ~hist.classified

\* C6: an exception leaving one engine's session is recorded as that engine's run
\* (status failed, with the error message); every engine selected for the target has
\* been run when analyze() ends, and analyze() does not throw.
C6_EngineFailureIsolated ==
    /\ \A e \in Engines :
         sessionThrew[e] => results[e].status = "failed" /\ results[e].error # "none"
    /\ pc = "done" =>
         /\ \A i \in 1..Len(browsers) : results[browsers[i]] # NoRecord
         /\ outcome = "returned"

\* C7: the engines of one target are driven one after another: at most one browser is
\* open, every engine before the open one has been closed (or failed to launch), none
\* after it has been launched, and a launch happens only while no browser is open.
C7_EnginesSequential ==
    /\ Cardinality({e \in Engines : browser[e] = "open"}) <= 1
    /\ \A i, j \in 1..Len(allBrowsers) :
         (browser[allBrowsers[i]] = "open" /\ j > i) => browser[allBrowsers[j]] = "none"
    /\ pc = "launch" => \A e \in Engines : browser[e] # "open"

\* the second engine's browser is open after the first engine's browser was closed
C7_Witness == browser["firefox"] = "open" /\ browser["chromium"] = "closed"

\* C8: the accessibility score of the summary is in [0,100] for every set of runs,
\* the case where no run succeeded included.
C8_ScoreInRange ==
    scorePc = "done" =>
        summary.llmAccessibilityScore >= 0 /\ summary.llmAccessibilityScore <= 100

\* the lower clamp acts on three successful runs
C8_Witness ==
    /\ scorePc = "done"
    /\ Len(runs) = 3
    /\ summary.error = "none"
    /\ summary.llmAccessibilityScore = 0

\* C9: for every pair of cleaned-text lengths the diffPercent of analyzeContent is in
\* [-200,200].
C9_DiffPercentInRange ==
    diffPc = "done" => percentChange >= -200 /\ percentChange <= 200

\* C10: with an empty cleaned raw text and a non-empty cleaned settled text,
\* analyzeContent reports diffPercent = 100.
C10_EmptyRawIsHundred ==
    (diffPc = "done" /\ rawLength = 0 /\ renderedLength > 0) => percentChange = 100

C12_OnlySuccessfulRunsAveraged ==
    scorePc = "done" =>
        \A i \in 1..Len(AveragedRuns(revision, runs)) :
            AveragedRuns(revision, runs)[i].kind = "success"

\* C13: when every run of a target ended failed (a blocked run is recorded as failed),
\* the summary carries score 0, confidence 0 and the explicit error marker, and the
\* recommendations are the two failure messages: nothing is computed from the empty set
\* of runs.
C13_AllFailedSummary ==
    (scorePc = "done" /\ revision # "modular"
       /\ \A i \in 1..Len(runs) : runs[i].kind = "failed")
        => /\ summary.llmAccessibilityScore = 0
           /\ summary.analysisConfidence = 0
           /\ summary.error = "All browsers failed"
           /\ Len(recommendations) = 2
           /\ recommendations[1].topic = "analysisFailed"

\* the summary of three failed runs has been written
C13_Witness ==
    /\ scorePc = "done" /\ Len(runs) = 3
    /\ \A i \in 1..3 : runs[i].kind = "failed"
    /\ summary.error = "All browsers failed"

IsFailedRun(b) == b.kind = "failed"

\* C14: confidence starts at 100 and is reduced by the failure penalty exactly once for
\* each failed run (and by 15 more when consistency is Low): with one of three engines
\* failed and the two others consistent it is 100 minus one failure penalty.
C14_ConfidencePenaltyPerFailure ==
    (scorePc = "done" /\ revision # "modular" /\ summary.error = "none")
        => summary.analysisConfidence
             = Max(0, 100 - FailurePenalty * Count(runs, IsFailedRun)
                          - (IF summary.crossBrowserConsistency = "Low" THEN 15 ELSE 0))

\* the runs with the i-th and the j-th exchanged
Exchanged(rs, i, j) ==
    [k \in 1..Len(rs) |-> IF k = i THEN rs[j] ELSE IF k = j THEN rs[i] ELSE rs[k]]

\* C15: score, confidence and consistency depend only on the multiset of the runs:
\* exchanging any two runs of a target yields the same three values (every permutation
\* is a sequence of exchanges, and every order of the runs is a state of SpecScore).
C15_SummaryOrderIndependent ==
    scorePc = "done" =>
        \A i, j \in 1..Len(runs) :
            i < j =>
            LET s == generateSummary(revision, Exchanged(runs, i, j))
            IN  /\ s.llmAccessibilityScore = summary.llmAccessibilityScore
                /\ s.analysisConfidence = summary.analysisConfidence
                /\ s.crossBrowserConsistency = summary.crossBrowserConsistency

\* a summary of three pairwise different runs (six distinct orders), one of them with
\* little raw content
C15_Witness ==
    /\ scorePc = "done" /\ Len(runs) = 3
    /\ runs[1] # runs[2] /\ runs[2] # runs[3] /\ runs[1] # runs[3]
    /\ runs[1].rawContentLength < 500 /\ runs[2].rawContentLength >= 500
    /\ summary.error = "none"


\* the run b with its rendered text resized so that its difference is m percent
EqualisedRun(rev, b, m) ==
    IF b.kind = "success" /\ b.rawContentLength > 0
      THEN SuccessRun(rev,
                      [rawHtml |-> b.rawHtmlLength, raw |-> b.rawContentLength,
                       rendered |-> b.rawContentLength + (b.rawContentLength * m) \div 100],
                      b.frameworks, b.content, b.responseErrors)
      ELSE b

\* the same runs, every one with the average difference m: variance 0
Equalised(rev, rs, m) == [i \in 1..Len(rs) |-> EqualisedRun(rev, rs[i], m)]

\* C16: the score carries a fixed deduction when the variance of the differences is
\* above the threshold: a run set with "Low" consistency and the same runs with the
\* differences equalised to their average ("High" consistency, same average, same raw
\* pages, frameworks and findings) never get the same score strictly between 0 and 100.
C16_VarianceDeduction ==
    ( /\ scorePc = "done"
      /\ summary.error = "none"
      /\ summary.crossBrowserConsistency = "Low"
      /\ summary.llmAccessibilityScore \in 1..99 ) =>
        LET s2 == generateSummary(revision,
                                  Equalised(revision, runs, summary.averageContentChange))
        IN  ( /\ s2.averageContentChange = summary.averageContentChange
              /\ s2.crossBrowserConsistency = "High"
              /\ s2.llmAccessibilityScore \in 1..99 ) =>
                s2.llmAccessibilityScore # summary.llmAccessibilityScore


\* the severity levels, most severe first
SeverityRank(sev) ==
    CASE sev = "critical" -> 4
      [] sev = "high"     -> 3
      [] sev = "medium"   -> 2
      [] sev = "low"      -> 1
      [] OTHER            -> 0

SeverityDescending(msgs) ==
    \A i \in 1..Len(msgs) : \A j \in 1..Len(msgs) :
        i < j => SeverityRank(msgs[i].severity) >= SeverityRank(msgs[j].severity)

\* C17: the recommendations of a classified page are ordered by severity, most severe
\* first, and when pricing is missing the critical pricing message is the first one.
C17_RecommendationsBySeverity ==
    classPc \in {"classified", "scored"} =>
        /\ SeverityDescending(jsRenderedContent.recommendations)
        /\ (jsRenderedContent.kind = "enhanced"
             /\ jsRenderedContent.analysis.findings["pricing"].missing > 0)
               => Head(jsRenderedContent.recommendations) = Message("critical", "pricing")


\* Scenario A: raw and settled document are both <html><body>Hello</body></html>
\* (31 characters of markup, cleaned text "Hello"), no framework, nothing missing
IsScenarioA(b) ==
    /\ b.kind = "success"
    /\ b.rawHtmlLength = 31 /\ b.rawContentLength = 5
    /\ b.frameworks = {}
    /\ ~b.content.missing /\ b.content.kind # "failed"
    /\ b.content.nav = 0 /\ b.content.pricing = 0 /\ b.content.reviews = 0
    /\ b.content.cart = 0 /\ b.content.inventory = 0
    /\ ~b.responseErrors

\* C18: a single successful run of Scenario A has difference 0 percent and gets
\* score 100.
C18_ScenarioAScore ==
    (scorePc = "done" /\ Len(runs) = 1 /\ IsScenarioA(runs[1])) =>
        /\ runs[1].contentDifferencePercent = 0
        /\ summary.llmAccessibilityScore = 100


\* C19: on Scenario B (raw body empty, settled document with 5 navigation links and 2
\* priced items) classification completes, reports 5 missing navigation links and 2
\* missing pricing elements, and the score carries the pricing penalty (30) and the
\* navigation penalty scaled by the 5 missing links (2 each) on top of the deductions
\* of the same page without findings.
C19_ScenarioBClassified ==
    (document = ScenarioB /\ classPc = "scored") =>
        /\ jsRenderedContent.kind = "enhanced"
        /\ jsRenderedContent.analysis.findings["navMain"].missing = 5
        /\ jsRenderedContent.analysis.findings["pricing"].missing = 2
        /\ summary.llmAccessibilityScore
             <= generateSummary(revision,
                                <<SuccessRun(revision, SnapshotSizes(document), {},
                                             [NoContent EXCEPT !.kind = "enhanced"],
                                             FALSE)>>).llmAccessibilityScore
                - 30 - 5 * 2


\* the rows of the sheet with a URL and no analysis yet, by row number, in sheet order
EligibleRows(rows) == SelectSeq([k \in 1..Len(rows) |-> k],
                                LAMBDA k : k > 1 /\ rows[k].url /\ ~rows[k].rawHtmlLength)

ProcessedRows == [k \in 1..Len(processed) |-> processed[k].row]

\* with E eligible targets and cap C the invocation has processed the first min(E, C)
\* of them in sheet order and, when E > C, has logged E - C remaining
CapRespected(C) ==
    LET eligible == EligibleRows(sheet)
        E        == Len(eligible)
    IN  /\ ProcessedRows = SubSeq(eligible, 1, Min(E, C))
        /\ E > C => (remainingLog # <<>> /\ \A k \in 1..Len(remainingLog) :
                                               remainingLog[k] = E - C)

\* C20 (as stated): for any number E of eligible targets and any configured cap C, a
\* completed batch invocation has processed exactly the first min(E, C) targets in
\* sheet order and, when E > C, has reported the E - C remaining ones.
C20_BatchCap ==
    (batchPc = "done" /\ envMaxBatchSize.set) => CapRespected(envMaxBatchSize.value)

\* C20 (as amended): the same for any positive configured cap C; a cap that is not
\* set, not a number or 0 stands for the default cap of 50.
C20_BatchCapPositive ==
    (batchPc = "done" /\ ~(envMaxBatchSize.set /\ envMaxBatchSize.value < 0)) =>
        CapRespected(IF envMaxBatchSize.set /\ envMaxBatchSize.value > 0
                       THEN envMaxBatchSize.value ELSE DefaultBatchSize)

C20_Witness ==
    /\ batchPc = "done"
    /\ envMaxBatchSize = [set |-> TRUE, value |-> 2]
    /\ Len(EligibleRows(sheet)) = 3
    /\ ProcessedRows = <<2, 3>>
    /\ remainingLog = <<1, 1>>


\* C21: in a batch the delay between two consecutive targets has elapsed before the
\* next target's analysis starts, whatever the outcome of the previous one (the i-th
\* analysis starts after i - 1 delays); no delay follows the last target; and never
\* are two targets under analysis at the same time.
C21_DelayBetweenTargets ==
    /\ Cardinality(inFlight) <= 1
    /\ batchPc = "analysing" =>
          /\ slept = Len(processed)
          /\ inFlight = {limitedUrls[batchIdx]}
    /\ batchPc \in {"summary", "done"} =>
          /\ inFlight = {}
          /\ slept = IF processed = <<>> THEN 0 ELSE Len(processed) - 1

C21_Witness ==
    /\ batchPc = "done"
    /\ Len(processed) = 3
    /\ processed[1].outcome = "error"
    /\ processed[2].outcome = "success"
    /\ slept = 2


\* successCount and errorCount of runBatch
successCount == Cardinality({k \in 1..Len(processed) :
                                processed[k].outcome \in {"success", "successUnwritten"}})
errorCount   == Cardinality({k \in 1..Len(processed) :
                                processed[k].outcome \in {"error", "errorUnrecorded"}})

\* C22: a target whose analysis throws does not abort the batch: its failure is written
\* to its own row (when the write itself succeeds), every later target within the cap
\* is still processed even when that write fails, and a finished batch has
\* successCount + errorCount equal to the number of targets processed.
C22_FailureIsolated ==
    /\ processed # <<>> => batchPc # "threw"
    /\ \A k \in 1..Len(processed) :
          processed[k].outcome = "error" =>
              \E w \in 1..Len(writes) :
                  writes[w] = [row |-> processed[k].row, range |-> "F:G"]
    /\ batchPc = "done" =>
          /\ ProcessedRows = limitedUrls
          /\ successCount + errorCount = Len(limitedUrls)

C22_Witness ==
    /\ batchPc = "done"
    /\ Len(limitedUrls) = 3
    /\ processed[1].outcome = "errorUnrecorded"
    /\ processed[2].outcome = "error"
    /\ processed[3].outcome = "success"


\* C23: for a missing or unparseable target URL analyze() fails at once with an input
\* error and no run is attempted: no browser is launched, no BrowserRun is recorded
\* and no summary (no report) is produced.
C23_InvalidUrlNoRun ==
    targetUrl # "valid" =>
        /\ \A e \in Engines : browser[e] = "none" /\ results[e] = NoRecord
        /\ pc \in {"validate", "done"}
        /\ pc = "done" => (outcome = "threw" /\ report = "none")


\* C24: for a valid target, whatever the engine sessions did, analyze() ends with a
\* written report that holds the summary and one record per selected engine, every
\* failed run carrying an error; the report (summary, recommendations) is produced only
\* after the last engine session.
C24_ReportAlwaysWritten ==
    /\ report = "results" => engineIdx > Len(browsers)
    /\ (targetUrl = "valid" /\ pc = "done") =>
          /\ report = "results"
          /\ \A k \in 1..Len(browsers) :
                /\ results[browsers[k]] # NoRecord
                /\ sessionThrew[browsers[k]] => results[browsers[k]].error # "none"


\* C25: every BrowserRun record stored in the results carries a status, and the status
\* is one of success, failed, protected, blocked, whichever path produced the record.
C25_StatusOfEveryRecord ==
    \A e \in Engines :
        results[e] # NoRecord =>
            results[e].status \in {"success", "failed", "protected", "blocked"}


\* C26: in every category a candidate is counted as missing only if its text is found
\* in neither the raw markup nor the raw text (case-insensitively): a candidate whose
\* text occurs in the raw text is never counted as missing.
C26_MissingOnlyIfInNeither ==
    (textPc = "done" /\ unitMissing) =>
        /\ ~includes(toLowerCase(rawHtml), toLowerCase(unit.text))
        /\ ~includes(toLowerCase(rawText), toLowerCase(unit.text))


\* the words of a text: its maximal runs of letters, in order
RECURSIVE Words(_)
Words(q) ==
    IF q = <<>> THEN <<>>
    ELSE IF Head(q) \notin Letters THEN Words(Tail(q))
    ELSE LET rest == Words(Tail(q))
         IN  IF Len(q) > 1 /\ q[2] \in Letters
               THEN <<<<Head(q)>> \o Head(rest)>> \o Tail(rest)
               ELSE <<<<Head(q)>>>> \o rest

\* C27: the text normalizer turns every removed tag into a word boundary (the words of
\* its output are the words of the markup split at tags and whitespace: texts separated
\* only by tags are not concatenated), and its output has no run of two or more
\* whitespace characters and no leading or trailing whitespace.
C27_TagsBecomeWordBoundaries ==
    (textPc # "clean" /\ \A i \in 1..Len(rawHtml) : rawHtml[i] # Comment) =>
        /\ Words(rawText) = Words(rawHtml)
        /\ rawText = Trim(rawText)
        /\ \A i \in 1..(Len(rawText) - 1) : ~(rawText[i] = Blank /\ rawText[i + 1] = Blank)


\* C28: while a target of a batch is under analysis the ambient TARGET_URL and
\* ROW_NUMBER are its own; every processed target is analysed once, in sheet-row order;
\* and every write to the sheet goes to the row of the target that caused it (results
\* to B:U of a target that succeeded, the error status to F:G of a target that failed),
\* at most once per target.
C28_TargetsIsolated ==
    /\ batchPc = "analysing" => ambientRow = limitedUrls[batchIdx]
    /\ ProcessedRows = SubSeq(limitedUrls, 1, Len(processed))
    /\ \A j, k \in 1..Len(processed) : j < k => processed[j].row < processed[k].row
    /\ writes = SelectSeq([k \in 1..Len(processed) |->
                             [row   |-> processed[k].row,
                              range |-> CASE processed[k].outcome = "success" -> "B:U"
                                          [] processed[k].outcome = "error"   -> "F:G"
                                          [] OTHER                            -> "none"]],
                          LAMBDA w : w.range # "none")

C28_Witness ==
    /\ batchPc = "done"
    /\ Len(processed) = 3
    /\ writes = <<[row |-> 2, range |-> "B:U"], [row |-> 3, range |-> "F:G"],
                  [row |-> 4, range |-> "B:U"]>>


\* C29: navigateWithFallbacks tries domcontentloaded, then load, makes at most two
\* attempts, stops at the first response with a status below 400 and returns it, and
\* raises 'All navigation strategies failed' exactly when no attempt gave such a
\* response, a response with status 400 or above included.
C29_NavigationFallbacks ==
    LET tried == hist.strategyOutcomes
    IN  /\ strategies = <<"domcontentloaded", "load">>
        /\ Len(tried) <= Len(strategies)
        /\ pc = "strategies" => strategyIdx = Len(tried) + 1
        /\ \A k \in 1..(Len(tried) - 1) : tried[k] # "ok"
        /\ pc = "blocking" => (tried # <<>> /\ tried[Len(tried)] = "ok")
        /\ (thrown = "All navigation strategies failed")
             <=> (Len(tried) = Len(strategies) /\ \A k \in 1..Len(tried) : tried[k] # "ok")

C29_Witness ==
    /\ thrown = "All navigation strategies failed"
    /\ hist.strategyOutcomes = <<"timeout", "httpError">>


SelectedEngines ==
    IF analysisType \in {"quick", "stealth"} THEN <<"chromium">>
    ELSE <<"chromium", "firefox", "webkit">>

WrittenEngines == {e \in Engines : results[e] # NoRecord}

\* C30: in src/analyzer.js, for a target with a valid URL, the sessions run are fixed
\* by the mode: quick and stealth run chromium only, every other value runs chromium,
\* firefox, webkit in that order; each session's record is written once, into a slot
\* not written before, and after analyze() exactly the selected engines have a record.
C30_EnginesFixedByMode ==
    /\ []((revision # "modular" /\ targetUrl = "valid") =>
            /\ engineIdx <= Len(SelectedEngines) + 1
            /\ WrittenEngines = {SelectedEngines[i] : i \in 1..(engineIdx - 1)}
            /\ pc \notin {"validate", "loop", "done"} =>
                  /\ engineIdx <= Len(SelectedEngines)
                  /\ engine = SelectedEngines[engineIdx]
                  /\ results[engine] = NoRecord
            /\ pc = "done" => (outcome = "returned" /\ engineIdx = Len(SelectedEngines) + 1))
    /\ [][(revision # "modular" /\ results' # results) =>
            /\ pc = "record"
            /\ results'[engine] # NoRecord
            /\ \A e \in Engines \ {engine} : results'[e] = results[e]]_vars

C30_Witness ==
    /\ revision # "modular" /\ targetUrl = "valid" /\ analysisType = "other"
    /\ pc = "done"
    /\ WrittenEngines = Engines
    /\ results["chromium"].status = "success" /\ results["firefox"].status = "failed"

====
